---- MODULE Spec2Model ----
(***************************************************************************)
(* Math Solver Vision: the session state machine of App.tsx, the crop      *)
(* dialog of ImageCropModal.tsx, the object-URL lifecycle and the solve    *)
(* service of geminiService.ts.                                            *)
(*                                                                         *)
(* Strings are sequences of one-character strings, so that trim,           *)
(* startsWith and replace are computed as JavaScript computes them.  A     *)
(* fixed message of the program is a one-element sequence holding the      *)
(* whole message.  A nullable value is <<>> (null) or <<v>>.               *)
(***************************************************************************)
EXTENDS Integers, Sequences, FiniteSets, TLC

VARIABLES
    appState,       \* App.tsx:11  "IDLE" | "CROPPING" | "ANALYZING" | "SUCCESS" | "ERROR"
    inputMode,      \* App.tsx:12  "upload" | "text"
    imageToCrop,    \* App.tsx:13  null | {file, url}
    uploadedImage,  \* App.tsx:14  null | {url}
    textProblem,    \* App.tsx:15
    submittedText,  \* App.tsx:16  null | string
    solution,       \* App.tsx:17  null | string
    error,          \* App.tsx:18  null | string
    completedCrop,  \* ImageCropModal.tsx:54  undefined | PixelCrop
    isProcessing,   \* ImageCropModal.tsx:55
    cropJob,        \* the suspended handleConfirmCrop / handleCropConfirm frame
    inflight,       \* the solve calls awaiting the collaborator
    urls,           \* the object URLs created so far: kind and number of revocations
    lastOutcome,    \* history: the collaborator outcome the shown result came from
    apiKey          \* geminiService.ts:3  process.env.API_KEY: undefined | string

vars == <<appState, inputMode, imageToCrop, uploadedImage, textProblem,
          submittedText, solution, error, completedCrop, isProcessing,
          cropJob, inflight, urls, lastOutcome, apiKey>>

-----------------------------------------------------------------------------
(* Bounds *)

MaxImages == 2
MaxTextLen == 2
MaxMsgLen == 1
MaxSide == 1
MaxFrame == 2
MaxNatural == 3

-----------------------------------------------------------------------------
(* Nullable values *)

Null == <<>>
Some(v) == <<v>>
Get(o) == o[1]

-----------------------------------------------------------------------------
(* Strings *)

Chars == {"x", " "}
WhiteSpace == {" "}

SeqsUpTo(S, n) == UNION {[1..k -> S] : k \in 0..n}

\* 'Error:' (App.tsx:42) and 'Error: ' (App.tsx:43, geminiService.ts:72)
ErrorTag == <<"E", "r", "r", "o", "r", ":">>
ErrorTagSp == ErrorTag \o <<" ">>

StartsWith(s, p) ==
    /\ Len(s) >= Len(p)
    /\ SubSeq(s, 1, Len(p)) = p

\* String.prototype.indexOf, 1-based; 0 when p does not occur in s
IndexOf(s, p) ==
    LET hits == {i \in 1..(Len(s) - Len(p) + 1) : SubSeq(s, i, i + Len(p) - 1) = p}
    IN IF hits = {} THEN 0 ELSE CHOOSE i \in hits : \A j \in hits : i <= j

\* String.prototype.replace with a string pattern: the first occurrence only
Replace(s, p, r) ==
    LET i == IndexOf(s, p)
    IN IF i = 0 THEN s
       ELSE SubSeq(s, 1, i - 1) \o r \o SubSeq(s, i + Len(p), Len(s))

\* String.prototype.trim
Trim(s) ==
    LET keep == {i \in 1..Len(s) : s[i] \notin WhiteSpace}
    IN IF keep = {} THEN <<>>
       ELSE SubSeq(s, CHOOSE i \in keep : \A j \in keep : i <= j,
                      CHOOSE i \in keep : \A j \in keep : i >= j)

-----------------------------------------------------------------------------
(* Inputs *)

Texts == SeqsUpTo(Chars, MaxTextLen)

\* the messages a collaborator failure or an in-band error can carry; one of
\* them contains the tag itself
Msgs == (SeqsUpTo(Chars, MaxMsgLen) \ {<<>>}) \cup {ErrorTagSp \o <<"x">>}

Responses ==
    {<<>>} \cup Msgs
    \cup {ErrorTagSp \o m : m \in Msgs \cup {<<>>}}
    \cup {ErrorTag \o m : m \in Msgs \cup {<<>>}}

\* what ai.models.generateContent can do: a response with text, a response
\* whose text is undefined, a thrown Error, a thrown value that is no Error
Outcomes ==
    {[type |-> "text", text |-> r] : r \in Responses}
    \cup {[type |-> "notext", text |-> <<>>]}
    \cup {[type |-> "error", text |-> m] : m \in Msgs \cup {<<>>}}
    \cup {[type |-> "nonerror", text |-> <<>>]}

\* the files a user can pick: their media type and natural size, and the size
\* the crop dialog lays the image out at (style maxHeight: '60vh'): MaxSide
\* wide and 1 high, so that file A is shown scaled down by 2 in X and by 3 in
\* Y, file B unscaled
Files ==
    {[name |-> "A", type |-> <<"image/", "png">>, naturalWidth |-> 2 * MaxSide, naturalHeight |-> 3,
      width |-> MaxSide, height |-> 1],
     [name |-> "B", type |-> <<"image/", "jpeg">>, naturalWidth |-> MaxSide, naturalHeight |-> 1,
      width |-> MaxSide, height |-> 1],
     [name |-> "D", type |-> <<"application/", "pdf">>, naturalWidth |-> 0, naturalHeight |-> 0,
      width |-> 0, height |-> 0]}

\* the images the extraction is examined on: every natural size up to
\* MaxNatural laid out at every size up to MaxFrame, scaled up or down
ExtractFiles ==
    {[name |-> "A", type |-> <<"image/", "png">>, naturalWidth |-> nw, naturalHeight |-> nh,
      width |-> w, height |-> h] :
        nw \in 1..MaxNatural, nh \in 1..MaxNatural, w \in 1..MaxFrame, h \in 1..MaxFrame}

\* window.devicePixelRatio; 0 stands for a value that is falsy
DevicePixelRatios == {0, 1, 2}

-----------------------------------------------------------------------------
(* Object URLs: URL.createObjectURL / URL.revokeObjectURL.  The URL created *)
(* by the n-th call is n; urls[n] records what it shows and how often it    *)
(* has been revoked.                                                         *)

CreateObjectURL(us, kind) == Append(us, [kind |-> kind, revoked |-> 0])

NewURL(us) == Len(us) + 1

RevokeObjectURL(us, u) == [us EXCEPT ![u].revoked = @ + 1]

Live(us) == {u \in 1..Len(us) : us[u].revoked = 0}

URLsOfKind(us, kind) == {u \in 1..Len(us) : us[u].kind = kind}

-----------------------------------------------------------------------------
(* The crop dialog: ImageCropModal.tsx *)

\* the <img> of the dialog once loaded: natural size of the file, and the
\* size it is laid out at
ImageElement(file) ==
    [file |-> file.name,
     naturalWidth |-> file.naturalWidth, naturalHeight |-> file.naturalHeight,
     width |-> file.width, height |-> file.height]

\* A number that need not be whole is the fraction n / d with d > 0.
Times(k, q) == [n |-> k * q.n, d |-> q.d]

\* window.devicePixelRatio || 1
PixelRatio(devicePixelRatio) == IF devicePixelRatio # 0 THEN devicePixelRatio ELSE 1

\* faulty variant: the X scale is used for both axes
SourceRect_OneScale(image, crop) ==
    LET scaleX == [n |-> image.naturalWidth, d |-> image.width]
    IN [x |-> Times(crop.x, scaleX), y |-> Times(crop.y, scaleX),
        width |-> Times(crop.width, scaleX), height |-> Times(crop.height, scaleX)]

\* the source rectangle handed to drawImage
SourceRect(image, crop) ==
    LET scaleX == [n |-> image.naturalWidth, d |-> image.width]
        scaleY == [n |-> image.naturalHeight, d |-> image.height]
    IN [x |-> Times(crop.x, scaleX), y |-> Times(crop.y, scaleY),
        width |-> Times(crop.width, scaleX), height |-> Times(crop.height, scaleY)]

\* the PixelCrops ReactCrop can report for an image laid out at w x h; a click
\* without a drag reports a crop of width and height 0
PixelCrops(w, h) ==
    {c \in [x : 0..w, y : 0..h, width : 0..w, height : 0..h] :
        c.x + c.width <= w /\ c.y + c.height <= h}

\* HTMLCanvasElement.toDataURL: "data:," for a canvas without pixels, else
\* "data:<type>;base64,<encoded raster>"; held as the media type of the header
\* and the piece after the comma (Null for the empty string)
ToDataURL(canvas, drawn, fileType) ==
    IF canvas.width = 0 \/ canvas.height = 0
    THEN <<"", Null>>
    ELSE <<fileType,
           Some([image |-> drawn.image,
                 sx |-> drawn.sx, sy |-> drawn.sy, sw |-> drawn.sw, sh |-> drawn.sh,
                 width |-> canvas.width, height |-> canvas.height])>>

\* getCroppedImg: the promise it returns, rejected or resolved with a data URL
GetCroppedImg(image, crop, fileType, ctx, devicePixelRatio) ==
    LET pixelRatio == PixelRatio(devicePixelRatio)
        canvas == [width |-> crop.width * pixelRatio, height |-> crop.height * pixelRatio]
        source == SourceRect(image, crop)
        drawn == [image |-> image.file,
                  sx |-> source.x, sy |-> source.y,
                  sw |-> source.width, sh |-> source.height]
    IN IF ~ctx
       THEN [ok |-> FALSE, value |-> <<"Could not get canvas context.", Null>>]
       ELSE [ok |-> TRUE, value |-> ToDataURL(canvas, drawn, fileType)]

NoJob == [pc |-> "none", result |-> Null, base64 |-> Null, mimeType |-> ""]

\* faulty variant: the application is mounted without the key
AppMounted_Always == TRUE

\* The service module throws while it is loaded when the key is absent; App
\* imports it, so without the key App is never rendered and none of its
\* controls exists.
AppMounted == apiKey # Null

\* {appState === AppState.CROPPING && imageToCrop && <ImageCropModal .../>}
ModalMounted == AppMounted /\ appState = "CROPPING" /\ imageToCrop # Null

CancelEnabled == ModalMounted /\ ~isProcessing

\* faulty variant: "Crop & Solve" stays enabled while a confirmation is processed
ConfirmEnabled_WhileProcessing == ModalMounted /\ completedCrop # Null

ConfirmEnabled == ModalMounted /\ ~(completedCrop = Null \/ isProcessing)

\* the dialog's state lives as long as the dialog is mounted
ModalState(state, image, crop, processing) ==
    IF state = "CROPPING" /\ image # Null
    THEN [completedCrop |-> crop, isProcessing |-> processing]
    ELSE [completedCrop |-> Null, isProcessing |-> FALSE]

-----------------------------------------------------------------------------
(* Render gating of App.tsx *)

IdleContentRendered == AppMounted /\ appState = "IDLE"

UploaderRendered == IdleContentRendered /\ inputMode = "upload"

UploaderDisabled == appState # "IDLE"


\* faulty variant: the form is rendered in every state, not only by renderIdleContent
FormRendered_AnyState == AppMounted /\ inputMode = "text"

FormRendered == IdleContentRendered /\ inputMode = "text"

TextareaDisabled == appState = "ANALYZING"


\* faulty variant: the button is rendered whenever the result view is
ResetButtonRendered_NotIdle == AppMounted /\ appState # "IDLE"

ResetButtonRendered == AppMounted /\ (appState = "SUCCESS" \/ appState = "ERROR")

-----------------------------------------------------------------------------
(* The solve service: geminiService.ts.  The result is the string the       *)
(* promise resolves with, or Null for undefined (response.text of a         *)
(* response without text parts).                                            *)

UnknownImageMsg == <<"An unknown error occurred while analyzing the image.">>
UnknownTextMsg == <<"An unknown error occurred while solving the problem.">>
FallbackMsg == <<"An unexpected error occurred.">>
TypeErrorMsg == <<"Cannot read properties of undefined (reading 'startsWith')">>

SolveMathProblemFromImage(outcome) ==
    CASE outcome.type = "text" -> Some(outcome.text)
      [] outcome.type = "notext" -> Null
      [] outcome.type = "error" -> Some(ErrorTagSp \o outcome.text)
      [] OTHER -> Some(UnknownImageMsg)

SolveMathProblemFromText(outcome) ==
    CASE outcome.type = "text" -> Some(outcome.text)
      [] outcome.type = "notext" -> Null
      [] outcome.type = "error" -> Some(ErrorTagSp \o outcome.text)
      [] OTHER -> Some(UnknownTextMsg)

SolveService(kind, outcome) ==
    IF kind = "image" THEN SolveMathProblemFromImage(outcome)
    ELSE SolveMathProblemFromText(outcome)

\* result.startsWith('Error:')
IsErrorResult(result) == StartsWith(result, ErrorTag)


\* faulty variant: the tag is cut by its length, result.slice('Error:'.length)
ErrorMessageOf_Slice(result) == SubSeq(result, Len(ErrorTag) + 1, Len(result))

\* new Error(result.replace('Error: ', '')).message
ErrorMessageOf(result) == Replace(result, ErrorTagSp, <<>>)


\* faulty variant: the message is stored without the fallback
DisplayedError_NoFallback(message) == message

\* e.message || 'An unexpected error occurred.'
DisplayedError(message) == IF message # <<>> THEN message ELSE FallbackMsg


\* faulty variant: the result is stored without looking for the tag
Continuation_NoTagCheck(result) ==
    IF result = Null
    THEN [appState |-> "ERROR", solution |-> Null, error |-> Some(DisplayedError(TypeErrorMsg))]
    ELSE [appState |-> "SUCCESS", solution |-> result, error |-> Null]

\* the try/catch after the await of handleCropConfirm and handleTextSubmit:
\* what it stores for a result of the service
Continuation(result) ==
    IF result = Null
    THEN [appState |-> "ERROR", solution |-> Null, error |-> Some(DisplayedError(TypeErrorMsg))]
    ELSE IF IsErrorResult(Get(result))
    THEN [appState |-> "ERROR", solution |-> Null,
          error |-> Some(DisplayedError(ErrorMessageOf(Get(result))))]
    ELSE [appState |-> "SUCCESS", solution |-> result, error |-> Null]

-----------------------------------------------------------------------------
(* Initial state: App.tsx:11-18, ImageCropModal.tsx:53-55 *)

Init ==
    /\ appState = "IDLE"
    /\ inputMode = "upload"
    /\ imageToCrop = Null
    /\ uploadedImage = Null
    /\ textProblem = <<>>
    /\ submittedText = Null
    /\ solution = Null
    /\ error = Null
    /\ completedCrop = Null
    /\ isProcessing = FALSE
    /\ cropJob = NoJob
    /\ inflight = <<>>
    /\ urls = <<>>
    /\ lastOutcome = Null
    /\ apiKey \in {Null, Some("key")}

-----------------------------------------------------------------------------
(* Actions *)

\* the segmented control of renderIdleContent
SetInputMode(mode) ==
    /\ IdleContentRendered
    /\ inputMode' = mode
    /\ UNCHANGED <<apiKey, appState, imageToCrop, uploadedImage, textProblem, submittedText,
                   solution, error, completedCrop, isProcessing, cropJob, inflight,
                   urls, lastOutcome>>

\* the textarea's onChange
SetTextProblem(text) ==
    /\ FormRendered
    /\ ~TextareaDisabled
    /\ textProblem' = text
    /\ UNCHANGED <<apiKey, appState, inputMode, imageToCrop, uploadedImage, submittedText,
                   solution, error, completedCrop, isProcessing, cropJob, inflight,
                   urls, lastOutcome>>

\* ImageUploader.handleFile, then App.handleImageSelect
HandleImageSelect(file) ==
    /\ UploaderRendered
    /\ ~UploaderDisabled
    /\ StartsWith(file.type, <<"image/">>)
    /\ Cardinality(URLsOfKind(urls, "source")) < MaxImages    \* bound of the model
    /\ LET revoked == IF imageToCrop # Null
                      THEN RevokeObjectURL(urls, Get(imageToCrop).url)
                      ELSE urls
       IN /\ imageToCrop' = Some([file |-> file, url |-> NewURL(revoked)])
          /\ urls' = CreateObjectURL(revoked, "source")
    /\ appState' = "CROPPING"
    /\ completedCrop' = ModalState("CROPPING", imageToCrop', completedCrop, isProcessing).completedCrop
    /\ isProcessing' = ModalState("CROPPING", imageToCrop', completedCrop, isProcessing).isProcessing
    /\ UNCHANGED <<apiKey, inputMode, uploadedImage, textProblem, submittedText, solution,
                   error, cropJob, inflight, lastOutcome>>

\* ReactCrop's onComplete
SetCompletedCrop(c) ==
    /\ ModalMounted
    /\ c \in PixelCrops(ImageElement(Get(imageToCrop).file).width,
                         ImageElement(Get(imageToCrop).file).height)
    /\ completedCrop' = Some(c)
    /\ UNCHANGED <<apiKey, appState, inputMode, imageToCrop, uploadedImage, textProblem,
                   submittedText, solution, error, isProcessing, cropJob, inflight,
                   urls, lastOutcome>>

\* handleConfirmCrop up to its await: the click on "Crop & Solve"
HandleConfirmCrop(ctx, devicePixelRatio) ==
    /\ ConfirmEnabled
    /\ completedCrop # Null
    /\ isProcessing' = TRUE
    /\ cropJob' = [NoJob EXCEPT
            !.pc = "encode",
            !.result = Some(GetCroppedImg(ImageElement(Get(imageToCrop).file),
                                          Get(completedCrop), "image/jpeg",
                                          ctx, devicePixelRatio))]
    /\ UNCHANGED <<apiKey, appState, inputMode, imageToCrop, uploadedImage, textProblem,
                   submittedText, solution, error, completedCrop, inflight, urls,
                   lastOutcome>>


\* faulty variant: the catch of handleConfirmCrop without setIsProcessing(false)
CropRejected_StaysProcessing ==
    /\ cropJob.pc = "encode"
    /\ ~Get(cropJob.result).ok
    /\ cropJob' = NoJob
    /\ UNCHANGED <<apiKey, appState, inputMode, imageToCrop, uploadedImage, textProblem,
                   submittedText, solution, error, completedCrop, isProcessing,
                   inflight, urls, lastOutcome>>

\* handleConfirmCrop's catch: getCroppedImg rejected
CropRejected ==
    /\ cropJob.pc = "encode"
    /\ ~Get(cropJob.result).ok
    /\ isProcessing' = ModalState(appState, imageToCrop, completedCrop, FALSE).isProcessing
    /\ cropJob' = NoJob
    /\ UNCHANGED <<apiKey, appState, inputMode, imageToCrop, uploadedImage, textProblem,
                   submittedText, solution, error, completedCrop, inflight, urls,
                   lastOutcome>>

\* handleConfirmCrop after its await: onConfirm(dataUrl.split(',')[1], 'image/jpeg'),
\* which runs handleCropConfirm up to its fetch of the data URL
CropResolved ==
    /\ cropJob.pc = "encode"
    /\ Get(cropJob.result).ok
    /\ cropJob' = [NoJob EXCEPT
            !.pc = "fetch",
            !.base64 = Get(cropJob.result).value[2],
            !.mimeType = "image/jpeg"]
    /\ UNCHANGED <<apiKey, appState, inputMode, imageToCrop, uploadedImage, textProblem,
                   submittedText, solution, error, completedCrop, isProcessing,
                   inflight, urls, lastOutcome>>

\* faulty variant: handleCropConfirm without setUploadedImage
FetchResolved_NoPreview ==
    /\ cropJob.pc = "fetch"
    /\ urls' = CreateObjectURL(urls, "cropped")
    /\ submittedText' = Null
    /\ appState' = "ANALYZING"
    /\ error' = Null
    /\ solution' = Null
    /\ imageToCrop' = Null
    /\ completedCrop' = ModalState("ANALYZING", Null, completedCrop, isProcessing).completedCrop
    /\ isProcessing' = ModalState("ANALYZING", Null, completedCrop, isProcessing).isProcessing
    /\ inflight' = Append(inflight, [kind |-> "image", base64 |-> cropJob.base64,
                                     mimeType |-> cropJob.mimeType])
    /\ cropJob' = NoJob
    /\ UNCHANGED <<apiKey, inputMode, textProblem, lastOutcome, uploadedImage>>

\* handleCropConfirm from the blob to the call of solveMathProblemFromImage
FetchResolved ==
    /\ cropJob.pc = "fetch"
    /\ uploadedImage' = Some([url |-> NewURL(urls)])
    /\ urls' = CreateObjectURL(urls, "cropped")
    /\ submittedText' = Null
    /\ appState' = "ANALYZING"
    /\ error' = Null
    /\ solution' = Null
    /\ imageToCrop' = Null
    /\ completedCrop' = ModalState("ANALYZING", Null, completedCrop, isProcessing).completedCrop
    /\ isProcessing' = ModalState("ANALYZING", Null, completedCrop, isProcessing).isProcessing
    /\ inflight' = Append(inflight, [kind |-> "image", base64 |-> cropJob.base64,
                                     mimeType |-> cropJob.mimeType])
    /\ cropJob' = NoJob
    /\ UNCHANGED <<apiKey, inputMode, textProblem, lastOutcome>>

\* the fetch of the data URL rejects: handleCropConfirm ends with an unhandled
\* rejection, which handleConfirmCrop does not await
FetchRejected ==
    /\ cropJob.pc = "fetch"
    /\ cropJob' = NoJob
    /\ UNCHANGED <<apiKey, appState, inputMode, imageToCrop, uploadedImage, textProblem,
                   submittedText, solution, error, completedCrop, isProcessing,
                   inflight, urls, lastOutcome>>



\* faulty variant: the guard tests the text without trimming it
HandleTextSubmit_NoTrim ==
    /\ FormRendered
    /\ IF textProblem = <<>>
       THEN UNCHANGED <<appState, uploadedImage, submittedText, solution, error, inflight>>
       ELSE /\ submittedText' = Some(textProblem)
            /\ uploadedImage' = Null
            /\ appState' = "ANALYZING"
            /\ error' = Null
            /\ solution' = Null
            /\ inflight' = Append(inflight, [kind |-> "text", problem |-> textProblem])
    /\ UNCHANGED <<apiKey, inputMode, imageToCrop, textProblem, completedCrop, isProcessing,
                   cropJob, urls, lastOutcome>>

\* faulty variant: the trimmed text is stored and sent
HandleTextSubmit_Trimmed ==
    /\ FormRendered
    /\ IF Trim(textProblem) = <<>>
       THEN UNCHANGED <<appState, uploadedImage, submittedText, solution, error, inflight>>
       ELSE /\ submittedText' = Some(Trim(textProblem))
            /\ uploadedImage' = Null
            /\ appState' = "ANALYZING"
            /\ error' = Null
            /\ solution' = Null
            /\ inflight' = Append(inflight, [kind |-> "text", problem |-> Trim(textProblem)])
    /\ UNCHANGED <<apiKey, inputMode, imageToCrop, textProblem, completedCrop, isProcessing,
                   cropJob, urls, lastOutcome>>

\* handleTextSubmit up to its await
HandleTextSubmit ==
    /\ FormRendered
    /\ IF Trim(textProblem) = <<>>
       THEN UNCHANGED <<appState, uploadedImage, submittedText, solution, error, inflight>>
       ELSE /\ submittedText' = Some(textProblem)
            /\ uploadedImage' = Null
            /\ appState' = "ANALYZING"
            /\ error' = Null
            /\ solution' = Null
            /\ inflight' = Append(inflight, [kind |-> "text", problem |-> textProblem])
    /\ UNCHANGED <<apiKey, inputMode, imageToCrop, textProblem, completedCrop, isProcessing,
                   cropJob, urls, lastOutcome>>


\* faulty variant: a failed call is issued again
SolveComplete_Retry(i, outcome) ==
    /\ i \in 1..Len(inflight)
    /\ LET call == inflight[i]
           k == Continuation(SolveService(call.kind, outcome))
       IN /\ appState' = k.appState
          /\ solution' = IF k.appState = "SUCCESS" THEN k.solution ELSE solution
          /\ error' = IF k.appState = "ERROR" THEN k.error ELSE error
          /\ lastOutcome' = Some([kind |-> call.kind, outcome |-> outcome])
          /\ completedCrop' = ModalState(k.appState, imageToCrop, completedCrop, isProcessing).completedCrop
          /\ isProcessing' = ModalState(k.appState, imageToCrop, completedCrop, isProcessing).isProcessing
          /\ inflight' = IF k.appState = "ERROR" THEN inflight
                         ELSE SubSeq(inflight, 1, i - 1) \o SubSeq(inflight, i + 1, Len(inflight))
    /\ UNCHANGED <<apiKey, inputMode, imageToCrop, uploadedImage, textProblem, submittedText,
                   cropJob, urls>>

\* the collaborator settles call i; the handler that awaits it resumes
SolveComplete(i, outcome) ==
    /\ i \in 1..Len(inflight)
    /\ LET call == inflight[i]
           k == Continuation(SolveService(call.kind, outcome))
       IN /\ appState' = k.appState
          /\ solution' = IF k.appState = "SUCCESS" THEN k.solution ELSE solution
          /\ error' = IF k.appState = "ERROR" THEN k.error ELSE error
          /\ lastOutcome' = Some([kind |-> call.kind, outcome |-> outcome])
          /\ completedCrop' = ModalState(k.appState, imageToCrop, completedCrop, isProcessing).completedCrop
          /\ isProcessing' = ModalState(k.appState, imageToCrop, completedCrop, isProcessing).isProcessing
    /\ inflight' = SubSeq(inflight, 1, i - 1) \o SubSeq(inflight, i + 1, Len(inflight))
    /\ UNCHANGED <<apiKey, inputMode, imageToCrop, uploadedImage, textProblem, submittedText,
                   cropJob, urls>>



\* faulty variant: handleReset without setImageToCrop(null)
HandleReset_KeepsImageToCrop ==
    /\ appState' = "IDLE"
    /\ uploadedImage' = Null
    /\ solution' = Null
    /\ error' = Null
    /\ textProblem' = <<>>
    /\ submittedText' = Null
    /\ LET first == IF uploadedImage # Null
                    THEN RevokeObjectURL(urls, Get(uploadedImage).url)
                    ELSE urls
       IN urls' = IF imageToCrop # Null
                  THEN RevokeObjectURL(first, Get(imageToCrop).url)
                  ELSE first
    /\ completedCrop' = ModalState("IDLE", Null, completedCrop, isProcessing).completedCrop
    /\ isProcessing' = ModalState("IDLE", Null, completedCrop, isProcessing).isProcessing
    /\ lastOutcome' = Null
    /\ UNCHANGED <<apiKey, inputMode, imageToCrop, cropJob, inflight>>

\* faulty variant: handleReset without setUploadedImage(null)
HandleReset_KeepsUploaded ==
    /\ appState' = "IDLE"
    /\ imageToCrop' = Null
    /\ solution' = Null
    /\ error' = Null
    /\ textProblem' = <<>>
    /\ submittedText' = Null
    /\ LET first == IF uploadedImage # Null
                    THEN RevokeObjectURL(urls, Get(uploadedImage).url)
                    ELSE urls
       IN urls' = IF imageToCrop # Null
                  THEN RevokeObjectURL(first, Get(imageToCrop).url)
                  ELSE first
    /\ completedCrop' = ModalState("IDLE", Null, completedCrop, isProcessing).completedCrop
    /\ isProcessing' = ModalState("IDLE", Null, completedCrop, isProcessing).isProcessing
    /\ lastOutcome' = Null
    /\ UNCHANGED <<apiKey, inputMode, uploadedImage, cropJob, inflight>>

\* faulty variant: handleReset without setSolution(null)
HandleReset_KeepsSolution ==
    /\ appState' = "IDLE"
    /\ uploadedImage' = Null
    /\ imageToCrop' = Null
    /\ error' = Null
    /\ textProblem' = <<>>
    /\ submittedText' = Null
    /\ LET first == IF uploadedImage # Null
                    THEN RevokeObjectURL(urls, Get(uploadedImage).url)
                    ELSE urls
       IN urls' = IF imageToCrop # Null
                  THEN RevokeObjectURL(first, Get(imageToCrop).url)
                  ELSE first
    /\ completedCrop' = ModalState("IDLE", Null, completedCrop, isProcessing).completedCrop
    /\ isProcessing' = ModalState("IDLE", Null, completedCrop, isProcessing).isProcessing
    /\ lastOutcome' = Null
    /\ UNCHANGED <<apiKey, inputMode, cropJob, inflight, solution>>

\* handleReset
HandleReset ==
    /\ appState' = "IDLE"
    /\ uploadedImage' = Null
    /\ imageToCrop' = Null
    /\ solution' = Null
    /\ error' = Null
    /\ textProblem' = <<>>
    /\ submittedText' = Null
    /\ LET first == IF uploadedImage # Null
                    THEN RevokeObjectURL(urls, Get(uploadedImage).url)
                    ELSE urls
       IN urls' = IF imageToCrop # Null
                  THEN RevokeObjectURL(first, Get(imageToCrop).url)
                  ELSE first
    /\ completedCrop' = ModalState("IDLE", Null, completedCrop, isProcessing).completedCrop
    /\ isProcessing' = ModalState("IDLE", Null, completedCrop, isProcessing).isProcessing
    /\ lastOutcome' = Null
    /\ UNCHANGED <<apiKey, inputMode, cropJob, inflight>>

\* "Cancel" of the crop dialog: onCancel={handleReset}
Cancel ==
    /\ CancelEnabled
    /\ HandleReset

\* "Solve Another Problem"
Reset ==
    /\ ResetButtonRendered
    /\ HandleReset

Next ==
    \/ \E mode \in {"upload", "text"} : SetInputMode(mode)
    \/ \E text \in Texts : SetTextProblem(text)
    \/ \E file \in Files : HandleImageSelect(file)
    \/ \E c \in PixelCrops(MaxSide, 1) : SetCompletedCrop(c)
    \/ \E ctx \in BOOLEAN, dpr \in DevicePixelRatios : HandleConfirmCrop(ctx, dpr)
    \/ CropRejected
    \/ CropResolved
    \/ FetchResolved
    \/ FetchRejected
    \/ HandleTextSubmit
    \/ \E i \in 1..Len(inflight), outcome \in Outcomes : SolveComplete(i, outcome)
    \/ Cancel
    \/ Reset

Spec == Init /\ [][Next]_vars

\* The extraction on its own: an image of any size in any layout is in the
\* dialog with any completed selection inside it, and the selection is confirmed.
ExtractInit ==
    /\ appState = "CROPPING"
    /\ inputMode = "upload"
    /\ \E file \in ExtractFiles :
          /\ imageToCrop = Some([file |-> file, url |-> 1])
          /\ \E c \in PixelCrops(file.width, file.height) : completedCrop = Some(c)
    /\ uploadedImage = Null
    /\ textProblem = <<>>
    /\ submittedText = Null
    /\ solution = Null
    /\ error = Null
    /\ isProcessing = FALSE
    /\ cropJob = NoJob
    /\ inflight = <<>>
    /\ urls = CreateObjectURL(<<>>, "source")
    /\ lastOutcome = Null
    /\ apiKey = Some("key")

ExtractNext ==
    \/ \E ctx \in BOOLEAN, dpr \in DevicePixelRatios : HandleConfirmCrop(ctx, dpr)
    \/ CropRejected
    \/ CropResolved

ExtractSpec == ExtractInit /\ [][ExtractNext]_vars

\* every solve call eventually settles
FairSpec == Spec /\ WF_vars(\E i \in 1..Len(inflight), outcome \in Outcomes : SolveComplete(i, outcome))

-----------------------------------------------------------------------------
(* Properties *)

\* the object URLs the session state refers to
Referenced ==
    {Get(o).url : o \in {o \in {imageToCrop, uploadedImage} : o # Null}}

ZeroSized(c) == c.width = 0 \/ c.height = 0

\* the last completed call got a text response from the collaborator
Responded == lastOutcome # Null /\ Get(lastOutcome).outcome.type = "text"

\* the last completed call failed in the collaborator
CollaboratorFailed ==
    lastOutcome # Null /\ Get(lastOutcome).outcome.type \in {"error", "nonerror"}

\* C1: at most one solve call is outstanding; a call is started only by a text
\* submission from Idle or a crop confirmation from Selecting; in Processing
\* the only step that changes anything is the completion of the outstanding
\* call, so nothing starts a second call or changes the session state.
C1_SingleOutstandingCall ==
    [][ /\ Len(inflight') <= 1
        /\ (Len(inflight') = 1) <=> (appState' = "ANALYZING")
        /\ Len(inflight') > Len(inflight) =>
              \/ appState = "IDLE" /\ inflight'[Len(inflight')].kind = "text"
              \/ appState = "CROPPING" /\ inflight'[Len(inflight')].kind = "image"
        /\ appState = "ANALYZING" =>
              /\ inflight' = <<>>
              /\ appState' \in {"SUCCESS", "ERROR"} ]_vars

C1_Witness ==
    /\ appState = "ANALYZING"
    /\ Len(inflight) = 1
    /\ inflight[1].kind = "text"
    /\ inputMode = "text"

\* C2: whenever the session is back in Idle no object URL is live; after two
\* rounds of select, confirm, complete, reset there are 4 URLs created and 4
\* revoked.
C2_NoLiveHandleInIdle ==
    appState = "IDLE" => Live(urls) = {}

\* C3: the live object URLs are exactly those the session state refers to: the
\* source image while Selecting, the cropped preview afterwards (the source
\* URL being revoked when the crop is confirmed).
C3_LiveEqualsReferenced ==
    Live(urls) = Referenced

\* C4: the step in which the outstanding solve call settles takes the session
\* out of Processing: to Success when the call returned text without the error
\* tag, to Failed when it returned text with the tag; and, every call settling
\* eventually, Processing leads to Success or Failed.
C4_CompletionLeavesProcessing ==
    /\ [][ (appState = "ANALYZING" /\ Len(inflight') < Len(inflight)) =>
              LET done == Get(lastOutcome')
                  result == SolveService(done.kind, done.outcome)
              IN /\ appState' \in {"SUCCESS", "ERROR"}
                 /\ result # Null =>
                      (appState' = "ERROR" <=> StartsWith(Get(result), ErrorTag)) ]_vars
    /\ (appState = "ANALYZING") ~> (appState \in {"SUCCESS", "ERROR"})

C4_Witness ==
    /\ appState = "ERROR"
    /\ Responded
    /\ Get(lastOutcome).kind = "text"
    /\ StartsWith(Get(lastOutcome).outcome.text, ErrorTag)

\* C5: every failure of the collaborator's request, with or without a message,
\* ends in Failed with a non-empty message, never in Success.
C5_FailureEndsInFailed ==
    CollaboratorFailed =>
        /\ appState = "ERROR"
        /\ error # Null
        /\ Get(error) # <<>>

\* C6: confirming a selection of width or height zero makes the extraction
\* fail, so that no payload of such a selection is ever fetched or sent.
C6_ZeroSelectionRejected ==
    /\ [][ (/\ cropJob.pc = "none"
            /\ cropJob'.pc = "encode"
            /\ completedCrop # Null
            /\ ZeroSized(Get(completedCrop))) =>
              ~Get(cropJob'.result).ok ]_vars
    /\ [](/\ cropJob.pc = "fetch" => cropJob.base64 # Null
          /\ \A i \in 1..Len(inflight) :
                inflight[i].kind = "image" => inflight[i].base64 # Null)

\* C7: when the extraction fails for want of a canvas context, the session
\* stays in Selecting with the same source image, its URL live, no solve call
\* issued, and cancel and confirm enabled again.
C7_ExtractionFailureKeepsSelection ==
    [][ (/\ cropJob.pc = "encode"
         /\ ~Get(cropJob.result).ok
         /\ cropJob' # cropJob) =>
              /\ appState' = "CROPPING"
              /\ imageToCrop # Null
              /\ imageToCrop' = imageToCrop
              /\ Get(imageToCrop').url \in Live(urls')
              /\ inflight = <<>> /\ inflight' = <<>>
              /\ cropJob' = NoJob
              /\ CancelEnabled'
              /\ ConfirmEnabled' ]_vars

C7_Witness ==
    /\ cropJob.pc = "encode"
    /\ ~Get(cropJob.result).ok
    /\ appState = "CROPPING"
    /\ isProcessing

\* C8: a response "Error: " followed by a non-empty message m ends in Failed
\* with error message exactly m, on the image path and on the text path; a
\* response ends in Failed exactly when it begins with "Error:".
C8_TaggedResponseFails ==
    Responded =>
        LET r == Get(lastOutcome).outcome.text
        IN /\ (appState = "ERROR") <=> StartsWith(r, ErrorTag)
           /\ (appState = "SUCCESS") <=> ~StartsWith(r, ErrorTag)
           /\ \A m \in Msgs : r = ErrorTagSp \o m => error = Some(m)

C8_Witness ==
    /\ Responded
    /\ Get(lastOutcome).kind = "image"
    /\ Get(lastOutcome).outcome.text = ErrorTagSp \o ErrorTagSp \o <<"x">>
    /\ appState = "ERROR"
    /\ error = Some(ErrorTagSp \o <<"x">>)

\* C9: a text that is not blank, submitted from Idle and answered by a response
\* r without the error tag, ends in Success with solution exactly r and the
\* submitted text exactly as typed; no object URL is created and the extractor
\* does not run while the text is the origin.
C9_TextPathSuccess ==
    /\ []((Responded /\ Get(lastOutcome).kind = "text"
              /\ ~StartsWith(Get(lastOutcome).outcome.text, ErrorTag)) =>
            /\ appState = "SUCCESS"
            /\ solution = Some(Get(lastOutcome).outcome.text)
            /\ submittedText = Some(textProblem)
            /\ Trim(textProblem) # <<>>
            /\ uploadedImage = Null)
    /\ [][ submittedText' # Null =>
              /\ urls' = urls
              /\ cropJob = NoJob /\ cropJob' = NoJob ]_vars

C9_Witness ==
    /\ appState = "SUCCESS"
    /\ Responded
    /\ Get(lastOutcome).kind = "text"
    /\ submittedText = Some(<<" ", "x">>)
    /\ solution = Some(<<"x">>)

\* C10: the object URL shown by the crop dialog and the one shown by the result
\* panel are live whenever they are shown.
C10_ShownHandlesAreLive ==
    /\ ModalMounted => Get(imageToCrop).url \in Live(urls)
    /\ (appState # "IDLE" /\ uploadedImage # Null) =>
          Get(uploadedImage).url \in Live(urls)

C10_Witness ==
    /\ appState = "SUCCESS"
    /\ uploadedImage # Null
    /\ Cardinality(URLsOfKind(urls, "cropped")) = 2
    /\ Get(uploadedImage).url \in Live(urls)

\* C11: no object URL is revoked more than once: the revocation in
\* handleImageSelect and the two in handleReset never hit a revoked URL.
C11_NoDoubleRelease ==
    \A u \in 1..Len(urls) : urls[u].revoked <= 1

C11_Witness ==
    /\ appState = "IDLE"
    /\ \E u \in URLsOfKind(urls, "source") : urls[u].revoked = 1
    /\ \E u \in URLsOfKind(urls, "cropped") : urls[u].revoked = 1

\* C12: in Failed the stored error message is a non-empty string, whatever the
\* collaborator returned or threw.
C12_FailedHasMessage ==
    appState = "ERROR" => (error # Null /\ Get(error) # <<>>)

C12_Witness ==
    /\ appState = "ERROR"
    /\ Responded
    /\ Get(lastOutcome).outcome.text = ErrorTagSp
    /\ error = Some(FallbackMsg)

\* C13: every change of the session state is one of: Idle -> Selecting (image
\* selected), Idle -> Processing (non-blank text submitted), Selecting ->
\* Processing (crop confirmed), Selecting -> Idle (cancel), Processing ->
\* Success or Failed (call settled), Success or Failed -> Idle (reset).
C13_OnlyListedTransitions ==
    [][ appState' # appState =>
          \/ /\ appState = "IDLE" /\ appState' = "CROPPING"
             /\ imageToCrop' # Null
          \/ /\ appState = "IDLE" /\ appState' = "ANALYZING"
             /\ submittedText' # Null
             /\ Trim(Get(submittedText')) # <<>>
          \/ /\ appState = "CROPPING" /\ appState' = "ANALYZING"
             /\ cropJob.pc = "fetch"
             /\ uploadedImage' # Null
          \/ /\ appState = "CROPPING" /\ appState' = "IDLE"
             /\ ~isProcessing
          \/ /\ appState = "ANALYZING" /\ appState' \in {"SUCCESS", "ERROR"}
             /\ Len(inflight') < Len(inflight)
          \/ /\ appState \in {"SUCCESS", "ERROR"} /\ appState' = "IDLE" ]_vars

C13_Witness ==
    /\ appState = "IDLE"
    /\ lastOutcome = Null
    /\ inputMode = "text"
    /\ \E u \in URLsOfKind(urls, "cropped") : urls[u].revoked = 1

\* C14: a reset in Success or Failed leaves the session in Idle with solution,
\* error, draft text and submitted text cleared and neither image reference
\* retained.
C14_ResetClearsSession ==
    [][ (appState \in {"SUCCESS", "ERROR"} /\ appState' # appState) =>
          /\ appState' = "IDLE"
          /\ solution' = Null
          /\ error' = Null
          /\ textProblem' = <<>>
          /\ submittedText' = Null
          /\ uploadedImage' = Null
          /\ imageToCrop' = Null ]_vars

C14_Witness ==
    /\ appState = "ERROR"
    /\ uploadedImage # Null
    /\ textProblem # <<>>
    /\ error # Null

\* C15: a cancel in Selecting returns to Idle, revokes the source URL, issues
\* no solve call and leaves the draft text and the input mode as they were.
C15_CancelOnlyDiscardsSelection ==
    [][ (appState = "CROPPING" /\ appState' = "IDLE") =>
          /\ urls'[Get(imageToCrop).url].revoked = 1
          /\ imageToCrop' = Null
          /\ inflight' = inflight
          /\ inputMode' = inputMode
          /\ textProblem' = textProblem ]_vars

\* C16: a solve call is issued exactly on entering Processing, one per entry,
\* carrying the payload and media type of the extraction or the text as
\* submitted; in Success and Failed no call is outstanding, so a further call
\* needs a reset and a new submission.
C16_NoAutomaticRetry ==
    [][ /\ (appState # "ANALYZING" /\ appState' = "ANALYZING") =>
              /\ Len(inflight') = Len(inflight) + 1
              /\ LET call == inflight'[Len(inflight')]
                 IN /\ call.kind = "image" =>
                          /\ cropJob.pc = "fetch"
                          /\ call.base64 = cropJob.base64
                          /\ call.mimeType = cropJob.mimeType
                    /\ call.kind = "text" =>
                          /\ call.problem = textProblem
                          /\ submittedText' = Some(textProblem)
        /\ Len(inflight') > Len(inflight) =>
              (appState # "ANALYZING" /\ appState' = "ANALYZING")
        /\ (cropJob.pc = "encode" /\ cropJob'.pc = "fetch") =>
              /\ cropJob'.base64 = Get(cropJob.result).value[2]
              /\ cropJob'.mimeType = "image/jpeg"
        /\ appState' \in {"SUCCESS", "ERROR", "IDLE"} => inflight' = <<>> ]_vars

C16_Witness ==
    /\ appState = "ERROR"
    /\ inflight = <<>>
    /\ lastOutcome # Null
    /\ Get(lastOutcome).kind = "image"
    /\ Get(lastOutcome).outcome.type = "error"

\* C19: with a draft that is empty or only whitespace a submission in Idle does
\* nothing: from such a state no step issues a solve call, enters Processing or
\* touches the submitted text, the solution or the error, and only typing
\* changes the draft.
C19_BlankSubmitIsNoOp ==
    [][ (appState = "IDLE" /\ Trim(textProblem) = <<>>) =>
          /\ appState' # "ANALYZING"
          /\ inflight' = inflight
          /\ submittedText' = submittedText
          /\ solution' = solution
          /\ error' = error
          /\ (appState' = "IDLE" /\ inputMode' = inputMode /\ textProblem' # textProblem) =>
                FormRendered ]_vars

C19_Witness ==
    /\ appState = "IDLE"
    /\ inputMode = "text"
    /\ textProblem = <<" ", " ">>
    /\ inflight = <<>>

\* C17: the raster of an extraction is as wide as the mapped source rectangle
\* times the pixel density, and as high, for every frame, selection and density.
C17_RasterIsSourceTimesDensity ==
    [][ (cropJob.pc = "none" /\ cropJob'.pc = "encode") =>
          \A dpr \in DevicePixelRatios :
            LET image == ImageElement(Get(imageToCrop).file)
                crop == Get(completedCrop)
                res == GetCroppedImg(image, crop, "image/jpeg", TRUE, dpr)
                source == SourceRect(image, crop)
            IN (cropJob'.result = Some(res) /\ res.value[2] # Null) =>
                 LET r == Get(res.value[2])
                 IN /\ r.width * source.width.d = source.width.n * PixelRatio(dpr)
                    /\ r.height * source.height.d = source.height.n * PixelRatio(dpr) ]_vars

\* C18: for a selection inside the displayed image the source rectangle lies
\* inside the natural image, X scaled by naturalWidth / width and Y by
\* naturalHeight / height; the raster drawn is of that rectangle.
C18_SourceRectInBounds ==
    (ModalMounted /\ completedCrop # Null) =>
        LET image == ImageElement(Get(imageToCrop).file)
            crop == Get(completedCrop)
            source == SourceRect(image, crop)
        IN /\ source.x.n >= 0 /\ source.y.n >= 0
           /\ source.width.n >= 0 /\ source.height.n >= 0
           /\ source.x.n + source.width.n <= image.naturalWidth * source.x.d
           /\ source.y.n + source.height.n <= image.naturalHeight * source.y.d
           /\ source.x.d = source.width.d /\ source.y.d = source.height.d
           /\ source.x.n * image.width = crop.x * image.naturalWidth * source.x.d
           /\ source.y.n * image.height = crop.y * image.naturalHeight * source.y.d
           /\ source.width.n * image.width = crop.width * image.naturalWidth * source.width.d
           /\ source.height.n * image.height = crop.height * image.naturalHeight * source.height.d
           /\ (cropJob.pc = "encode" /\ Get(cropJob.result).ok
                  /\ Get(cropJob.result).value[2] # Null) =>
                LET r == Get(Get(cropJob.result).value[2])
                IN /\ \E c \in PixelCrops(image.width, image.height) :
                        <<r.sx, r.sy, r.sw, r.sh>>
                          = <<SourceRect(image, c).x, SourceRect(image, c).y,
                              SourceRect(image, c).width, SourceRect(image, c).height>>
                   /\ r.sx.n >= 0 /\ r.sy.n >= 0
                   /\ r.sx.n + r.sw.n <= image.naturalWidth * r.sx.d
                   /\ r.sy.n + r.sh.n <= image.naturalHeight * r.sy.d

C18_Witness ==
    /\ cropJob.pc = "encode"
    /\ Get(cropJob.result).ok
    /\ Get(cropJob.result).value[2] # Null
    /\ LET image == ImageElement(Get(imageToCrop).file)
           crop == Get(completedCrop)
       IN /\ image.naturalWidth = 3 /\ image.width = 2
          /\ image.naturalHeight = 1 /\ image.height = 2
          /\ crop = [x |-> 1, y |-> 1, width |-> 1, height |-> 1]

C21_ConfirmationExcludesCancelAndConfirm ==
    [][ /\ (appState = "CROPPING" /\ cropJob.pc # "none") =>
              /\ isProcessing /\ ~CancelEnabled /\ ~ConfirmEnabled
              /\ appState' # "IDLE"
              /\ cropJob'.pc = "encode" => cropJob' = cropJob
              /\ appState' = "CROPPING" =>
                    /\ imageToCrop' = imageToCrop
                    /\ urls' = urls
                    /\ inflight' = inflight
                    /\ cropJob'.pc = "none" =>
                          (cropJob.pc = "encode" => ~isProcessing')
              /\ appState' # "CROPPING" =>
                    /\ cropJob.pc = "fetch" /\ cropJob'.pc = "none"
                    /\ appState' = "ANALYZING"
                    /\ Len(inflight') = Len(inflight) + 1
                    /\ Cardinality(URLsOfKind(urls', "cropped"))
                         = Cardinality(URLsOfKind(urls, "cropped")) + 1
        /\ (Cardinality(URLsOfKind(urls', "cropped")) # Cardinality(URLsOfKind(urls, "cropped"))
              \/ \E i \in 1..Len(inflight') : i > Len(inflight) /\ inflight'[i].kind = "image") =>
              appState = "CROPPING" /\ cropJob.pc = "fetch" ]_vars

C21_Witness ==
    /\ appState = "ANALYZING"
    /\ uploadedImage # Null
    /\ Len(inflight) = 1
    /\ Cardinality(URLsOfKind(urls, "cropped")) = 2
    /\ Cardinality(URLsOfKind(urls, "source")) = 2

\* C22: the session is never stuck: whenever the application is mounted and
\* nothing asynchronous is pending, a control is enabled: in IDLE the uploader
\* or the text form, in CROPPING cancel (and confirm once a selection is
\* complete), in SUCCESS and ERROR reset; also after a failed step of a crop
\* confirmation.
C22_NeverStuck ==
    (AppMounted /\ cropJob.pc = "none" /\ inflight = <<>>) =>
        /\ appState = "IDLE" =>
              \/ UploaderRendered /\ ~UploaderDisabled
              \/ FormRendered /\ ~TextareaDisabled
        /\ appState = "CROPPING" =>
              /\ CancelEnabled
              /\ completedCrop # Null => ConfirmEnabled
        /\ appState \in {"SUCCESS", "ERROR"} => ResetButtonRendered
        /\ appState # "ANALYZING"

\* C23: in ANALYZING, SUCCESS and ERROR exactly one of the cropped preview
\* (uploadedImage) and the submitted text is set, the one of the request that
\* was issued, and neither changes when the request ends in SUCCESS or ERROR.
C23_ExactlyOneOrigin ==
    /\ [](appState \in {"ANALYZING", "SUCCESS", "ERROR"} =>
            /\ (uploadedImage # Null) # (submittedText # Null)
            /\ \A i \in 1..Len(inflight) :
                  (inflight[i].kind = "image") = (uploadedImage # Null)
            /\ lastOutcome # Null =>
                  ((Get(lastOutcome).kind = "image") = (uploadedImage # Null)))
    /\ [][ (appState = "ANALYZING" /\ appState' \in {"SUCCESS", "ERROR"}) =>
              /\ uploadedImage' = uploadedImage
              /\ submittedText' = submittedText ]_vars

C23_Witness ==
    /\ appState = "ERROR"
    /\ uploadedImage # Null
    /\ submittedText = Null
    /\ lastOutcome # Null
    /\ Len(urls) = 4

\* C24: the solution is set exactly in SUCCESS and the error message exactly
\* in ERROR; both are absent in IDLE, CROPPING and ANALYZING, also when
\* ANALYZING is entered again after an earlier result.
C24_ResultMatchesState ==
    /\ (solution # Null) = (appState = "SUCCESS")
    /\ (error # Null) = (appState = "ERROR")
    /\ appState \in {"IDLE", "CROPPING", "ANALYZING"} => solution = Null /\ error = Null

C24_Witness ==
    /\ appState = "ANALYZING"
    /\ solution = Null /\ error = Null
    /\ Cardinality(URLsOfKind(urls, "cropped")) = 1
    /\ submittedText # Null

====
